---- MODULE Spec2Model ----
(***************************************************************************)
(* A model of devclean's cleanup.js: the size accumulator, the size        *)
(* formatter, the project type detector, the manifest validator, the tree  *)
(* scanner, the target processor and the top-level driver.                 *)
(***************************************************************************)
EXTENDS Integers, Sequences, FiniteSets, TLC

(***************************************************************************)
(* Configuration tables (cleanup.js lines 7-30).                           *)
(***************************************************************************)

\* Object.entries(PROJECT_TYPES) enumerates the keys in insertion order.
ProjectTypeOrder == <<"NODE", "PYTHON">>

PROJECT_TYPES ==
    [NODE   |-> [depFolder   |-> "node_modules",
                 configFiles |-> <<"package.json", "package-lock.json", "yarn.lock">>],
     PYTHON |-> [depFolder   |-> "venv",
                 configFiles |-> <<"requirements.txt", "Pipfile", "poetry.lock">>]]

TARGET_DIRS ==
    <<"node_modules", "venv", ".pytest_cache", "__pycache__", ".next", "dist",
      "build", ".gradle", "target", "vendor", ".cargo">>

\* Array.prototype.includes over TARGET_DIRS.
includes(arr, x) == \E i \in 1..Len(arr) : arr[i] = x

Range(s) == {s[i] : i \in 1..Len(s)}

\* The first character of each entry name the model uses ("" has none).
FirstChar(name) ==
    CASE name \in {".pytest_cache", ".next", ".gradle", ".cargo", ".git"} -> "."
      [] name \in {"node_modules"} -> "n"
      [] name \in {"venv", "vendor"} -> "v"
      [] name \in {"__pycache__"} -> "_"
      [] name \in {"dist"} -> "d"
      [] name \in {"build"} -> "b"
      [] name \in {"target"} -> "t"
      [] name \in {"src"} -> "s"
      [] name \in {"lib", "link"} -> "l"
      [] name \in {"home"} -> "h"
      [] OTHER -> "?"

\* String.prototype.startsWith with a one-character prefix.
startsWith(name, ch) == FirstChar(name) = ch

(***************************************************************************)
(* formatSize (cleanup.js lines 71-82).                                    *)
(*                                                                         *)
(* A byte count is written in base 1024, least significant digit first     *)
(* and without leading zeros (<<>> is 0, <<512, 1>> is 1536), so that      *)
(* counts of 1024^4 and more are representable.  The running value `size`  *)
(* of the loop is a pair of an integer part (same representation) and a    *)
(* fractional part (base-1024 digits after the point, most significant     *)
(* first): dividing by 1024 moves one digit across the point, which is     *)
(* exact, as it is on IEEE doubles.                                        *)
(***************************************************************************)

K == 1024

units == <<"B", "KB", "MB", "GB">>

\* size > 1024 in place of size >= 1024.
AboveK(size) ==
    /\ Len(size.int) >= 2
    /\ (size.int # <<0, 1>> \/ \E i \in DOMAIN size.frac : size.frac[i] # 0)

\* size >= 1024 : the integer part has at least two base-1024 digits.
AtLeastK(size) == Len(size.int) >= 2

\* size /= 1024
DivK(size) ==
    IF size.int = <<>>
    THEN [int |-> <<>>, frac |-> <<0>> \o size.frac]
    ELSE [int |-> Tail(size.int), frac |-> <<Head(size.int)>> \o size.frac]

\* while (size >= 1024 && unitIndex < units.length - 1) { size /= 1024; unitIndex++; }
RECURSIVE FormatLoop(_, _)
FormatLoop(size, unitIndex) ==
    IF AtLeastK(size) /\ unitIndex < Len(units) - 1
    THEN FormatLoop(DivK(size), unitIndex + 1)
    ELSE [size |-> size, unitIndex |-> unitIndex]

\* 100 * 0.frac in base 1024, digit by digit from the least significant:
\* the carry out of the top digit is floor(100 * frac), `rest` the digits left.
RECURSIVE TimesHundred(_, _, _)
TimesHundred(frac, carry, rest) ==
    IF frac = <<>>
    THEN [whole |-> carry, rest |-> rest]
    ELSE LET t == 100 * frac[Len(frac)] + carry
         IN  TimesHundred(SubSeq(frac, 1, Len(frac) - 1), t \div K, <<t % K>> \o rest)

\* The integer part plus one, in base 1024.
RECURSIVE Increment(_)
Increment(int) ==
    IF int = <<>> THEN <<1>>
    ELSE IF Head(int) + 1 < K THEN <<Head(int) + 1>> \o Tail(int)
    ELSE <<0>> \o Increment(Tail(int))

\* Number.prototype.toFixed(2): the nearest multiple of 0.01, ties upwards.
toFixed2(size) ==
    LET h     == TimesHundred(size.frac, 0, <<>>)
        up    == h.rest # <<>> /\ 2 * Head(h.rest) >= K
        cents == h.whole + (IF up THEN 1 ELSE 0)
    IN  IF cents = 100
        THEN [whole |-> Increment(size.int), cents |-> 0]
        ELSE [whole |-> size.int, cents |-> cents]

formatSize(bytes) ==
    LET r == FormatLoop([int |-> bytes, frac |-> <<>>], 0)
        t == toFixed2(r.size)
    IN  [whole |-> t.whole, cents |-> t.cents, unit |-> units[r.unitIndex + 1]]

(***************************************************************************)
(* The manifest files of a parent directory.  An entry of the directory    *)
(* is absent, present but inaccessible (a path component denies search),   *)
(* or present with a size.  fs.access (mode F_OK) and fs.stat both fail    *)
(* on the first two.                                                       *)
(***************************************************************************)

MaxManifestSize == 1

FileStates ==
    {[st |-> "absent", size |-> 0], [st |-> "inaccessible", size |-> 0]}
        \cup {[st |-> "present", size |-> s] : s \in 0..MaxManifestSize}

\* await fs.access(path.join(parentDir, configFile)) returns (does not throw).
accessOk(parentFiles, configFile) == parentFiles[configFile].st = "present"

\* await fs.stat(configPath) returns (does not throw).
statOk(parentFiles, configFile) == parentFiles[configFile].st = "present"

statSize(parentFiles, configFile) == parentFiles[configFile].size

(***************************************************************************)
(* detectProjectType (cleanup.js lines 84-102): the key of the first rule  *)
(* whose depFolder is the basename and one of whose manifest files is      *)
(* accessible in the parent directory; "null" when there is none.          *)
(***************************************************************************)

\* The name alone decides, no manifest file is probed.
NameAloneMatches(parentFiles, configFiles, i) == TRUE

RECURSIVE AnyAccessible(_, _, _)
AnyAccessible(parentFiles, configFiles, i) ==
    IF i > Len(configFiles) THEN FALSE
    ELSE IF accessOk(parentFiles, configFiles[i]) THEN TRUE
    ELSE AnyAccessible(parentFiles, configFiles, i + 1)

RECURSIVE DetectFrom(_, _, _)
DetectFrom(dirName, parentFiles, t) ==
    IF t > Len(ProjectTypeOrder) THEN "null"
    ELSE LET type   == ProjectTypeOrder[t]
             config == PROJECT_TYPES[type]
         IN  IF config.depFolder = dirName /\ AnyAccessible(parentFiles, config.configFiles, 1)
             THEN type
             ELSE DetectFrom(dirName, parentFiles, t + 1)

detectProjectType(dirName, parentFiles) == DetectFrom(dirName, parentFiles, 1)

(***************************************************************************)
(* verifyConfigFiles (cleanup.js lines 104-123).                           *)
(***************************************************************************)

\* An empty manifest file is reported as missing.
verifyEntryEmptyIsMissing(parentFiles, f, acc) ==
    IF accessOk(parentFiles, f) /\ statOk(parentFiles, f) /\ statSize(parentFiles, f) > 0
    THEN [acc EXCEPT !.isValid = TRUE]
    ELSE [acc EXCEPT !.missingFiles = Append(acc.missingFiles, f)]

\* The body of the loop, lines 110-119.
verifyEntry(parentFiles, f, acc) ==
    IF accessOk(parentFiles, f) /\ statOk(parentFiles, f)
    THEN [acc EXCEPT !.isValid = acc.isValid \/ statSize(parentFiles, f) > 0]
    ELSE [acc EXCEPT !.missingFiles = Append(acc.missingFiles, f)]

RECURSIVE VerifyLoop(_, _, _, _)
VerifyLoop(parentFiles, configFiles, i, acc) ==
    IF i > Len(configFiles) THEN acc
    ELSE VerifyLoop(parentFiles, configFiles, i + 1,
                    verifyEntry(parentFiles, configFiles[i], acc))

verifyConfigFiles(parentFiles, type) ==
    VerifyLoop(parentFiles, PROJECT_TYPES[type].configFiles, 1,
               [isValid |-> FALSE, missingFiles |-> <<>>])

(***************************************************************************)
(* The directory tree.  Node 0 is the directory the operation starts from  *)
(* (the home directory for the scan); every other node n is an entry of    *)
(* the directory fs[n].parent.  A node is a regular file, a symbolic link  *)
(* or a directory; readdir's Dirents and lstat both describe the entry     *)
(* itself, so a link's destination (which may be an ancestor) is never     *)
(* consulted.  fs[n].lstatFail: lstat of the entry throws.                 *)
(* fs[n].listFail: readdir of the directory throws.  readdir returns the   *)
(* existing entries in node order; the trees drawn by Init cover every     *)
(* relative order of differently shaped siblings.                          *)
(***************************************************************************)

NumNodes == 3

MaxSize == 2

Root == 0

Nodes == 0..NumNodes

\* A value that is no node.
None == Root - 1

VARIABLES
    fs,           \* the tree: node -> [parent, name, kind, size, lstatFail, listFail]
    exists,       \* the nodes not yet removed
    arg,          \* the argument of the pure function under check
    ret,          \* its result
    mainPc,       \* main: "off", "start", "scan", "complete", "caught", "closed"
    log,          \* what main itself printed and did, in order
    stack,        \* the active scanDirectory calls: [dir, files, i], innermost last
    awaiting,     \* the target whose processTarget the scanner awaits, or None
    trail,        \* node -> the states its processTarget call went through
    missing,      \* node -> the missing files its warning listed, while it is processed
    shown,        \* node -> the size reported for it
    reply,        \* the last answered prompt: [node, answer]
    scanned,      \* the directories scanDirectory was called on
    calls,        \* node -> the number of processTarget calls on it
    prompts,      \* node -> the number of prompts issued for it
    warned,       \* the targets a warning was printed for
    rmAttempted   \* the directories fs.rm was called on

vars == <<fs, exists, arg, ret, mainPc, log, stack, awaiting, trail, missing,
          shown, reply, scanned, calls, prompts, warned, rmAttempted>>

RECURSIVE ChildrenFrom(_, _, _, _)
ChildrenFrom(tree, live, d, n) ==
    IF n > NumNodes THEN <<>>
    ELSE (IF n \in live /\ tree[n].parent = d THEN <<n>> ELSE <<>>)
             \o ChildrenFrom(tree, live, d, n + 1)

\* await fs.readdir(dirPath, { withFileTypes: true }), when it does not throw.
readdir(tree, live, d) == ChildrenFrom(tree, live, d, 1)

\* readdir throws: the directory is gone or may not be listed.
readdirFails(tree, live, d) == d \notin live \/ tree[d].listFail

(***************************************************************************)
(* calculateSize (cleanup.js lines 41-69).                                 *)
(***************************************************************************)

\* A directory's own size is counted on top of its contents.
entrySizeWithDirectory(tree, n, sub) ==
    IF tree[n].lstatFail THEN 0
    ELSE IF tree[n].kind = "dir" THEN sub + tree[n].size
    ELSE tree[n].size

\* The size one entry adds inside the loop body (lines 48-63), given the
\* total of its own subtree.
entrySize(tree, n, sub) ==
    IF tree[n].lstatFail THEN 0
    ELSE IF tree[n].kind = "link" THEN tree[n].size
    ELSE IF tree[n].kind = "dir" THEN sub
    ELSE tree[n].size

RECURSIVE calculateSize(_, _, _)
RECURSIVE SizeLoop(_, _, _, _)
SizeLoop(tree, live, files, i) ==
    IF i > Len(files) THEN 0
    ELSE LET n   == files[i]
             sub == IF ~tree[n].lstatFail /\ tree[n].kind = "dir"
                    THEN calculateSize(tree, live, n) ELSE 0
         IN  entrySize(tree, n, sub) + SizeLoop(tree, live, files, i + 1)

calculateSize(tree, live, dirPath) ==
    IF readdirFails(tree, live, dirPath) THEN 0
    ELSE SizeLoop(tree, live, readdir(tree, live, dirPath), 1)

(***************************************************************************)
(* The walk: main, scanDirectory and processTarget (lines 125-188).        *)
(* JavaScript runs these on one thread; every await is a point where the   *)
(* caller is suspended until the callee settles.                           *)
(***************************************************************************)

Active == {"DISCOVERED", "SIZED", "WARNED", "PROMPTED"}

Terminal == {"DELETED", "SKIPPED", "ERRORED"}

NoFiles == <<>>

NoReply == [node |-> None, answer |-> <<>>]

NoSize == [whole |-> <<>>, cents |-> 0, unit |-> "-"]

\* The state the processTarget call on n is in.
Stage(n) == IF trail[n] = <<>> THEN "none" ELSE trail[n][Len(trail[n])]

Enter(n, st) == [trail EXCEPT ![n] = Append(@, st)]

\* The operator's possible input lines, as character sequences.
Answers ==
    {<<"y">>, <<"Y">>, <<"n">>, <<>>, <<"y", "e", "s">>, <<" ", "y">>}

LowerChar(c) ==
    CASE c = "Y" -> "y" [] c = "E" -> "e" [] c = "S" -> "s" [] c = "N" -> "n"
      [] OTHER -> c

\* String.prototype.toLowerCase
toLowerCase(str) == [i \in DOMAIN str |-> LowerChar(str[i])]

\* answer === 'y', without the lower-casing.
isYesCaseSensitive(answer) == answer = <<"y">>

\* answer.toLowerCase() === 'y' (line 144)
isYes(answer) == toLowerCase(answer) = <<"y">>

\* No entry counts as hidden.
isHiddenNever(name) == FALSE

\* file.name.startsWith('.') (line 158)
isHidden(name) == startsWith(name, ".")

\* file.isDirectory() on a Dirent of readdir (line 162): the entry's own type.
isDirectory(tree, n) == tree[n].kind = "dir"

\* The warning is printed whenever a manifest file is missing.
shouldWarnOnMissing(v) == v.missingFiles # <<>>

\* !isValid (line 136)
shouldWarn(v) == ~v.isValid

\* processTarget, lines 133-141: whether the warning is printed for a target
\* of this name, and the missing files it lists.
manifestWarning(dirName, parentFiles) ==
    LET projectType == detectProjectType(dirName, parentFiles)
    IN  IF projectType = "null"
        THEN [warn |-> FALSE, missingFiles |-> <<>>]
        ELSE LET v == verifyConfigFiles(parentFiles, projectType)
             IN  IF shouldWarn(v)
                 THEN [warn |-> TRUE, missingFiles |-> v.missingFiles]
                 ELSE [warn |-> FALSE, missingFiles |-> <<>>]

\* A JavaScript number as base-1024 digits, least significant first.
RECURSIVE ToDigits(_)
ToDigits(n) == IF n = 0 THEN <<>> ELSE <<n % K>> \o ToDigits(n \div K)

\* The nodes of the subtree of n, n included.
RECURSIVE Ancestors(_, _)
Ancestors(tree, n) ==
    IF n = Root THEN {} ELSE {tree[n].parent} \cup Ancestors(tree, tree[n].parent)

Subtree(tree, n) == {m \in Nodes : m = n \/ n \in Ancestors(tree, m)}

\* What a failed recursive removal may already have removed: any part of the
\* subtree below the target that is closed under descent.
PartialRemovals(tree, live, n) ==
    {R \in SUBSET ((Subtree(tree, n) \ {n}) \cap live) :
        \A m \in R : (Subtree(tree, m) \cap live) \subseteq R}

\* The manifest files detectProjectType and verifyConfigFiles may probe for a
\* target of this name, in every state.
ParentFilesFor(dirName) ==
    IF \E t \in DOMAIN PROJECT_TYPES : PROJECT_TYPES[t].depFolder = dirName
    THEN LET t == CHOOSE t \in DOMAIN PROJECT_TYPES : PROJECT_TYPES[t].depFolder = dirName
         IN  [Range(PROJECT_TYPES[t].configFiles) -> FileStates]
    ELSE {NoFiles}

\* The frame of a scanDirectory call (lines 154-155): readdir has returned.
Frame(d) == [dir |-> d, files |-> readdir(fs, exists, d), i |-> 1]

\* The listing error unwinds every scanDirectory call.
AbortScan(stk) == <<>>

\* The catch of scanDirectory (lines 170-172) logs and returns to the caller,
\* whose frames stay as they are.
AfterScanError(stk) == stk

\* processTarget(fullPath) without the await.
NoAwait(n) == None

\* await processTarget(fullPath) (line 164): the scanner waits for the call.
AwaitTarget(n) == n

\* rl.close() at the end of the try block, not in a finally block.
ClosesAfterTry == {"complete"}

\* The states main may be in when the finally block closes the input stream.
ClosesFrom == {"complete", "caught"}

Top == stack[Len(stack)]

Advance == [stack EXCEPT ![Len(stack)].i = Top.i + 1]

AtEntry ==
    /\ mainPc = "scan"
    /\ awaiting = None
    /\ stack # <<>>
    /\ Top.i <= Len(Top.files)

Entry == Top.files[Top.i]

\* main, lines 177-179: the home directory is known, the walk starts.
MainStart ==
    /\ mainPc = "start"
    /\ mainPc' = "scan"
    /\ log' = Append(log, "Starting scan")
    /\ scanned' = scanned \cup {Root}
    /\ stack' = IF readdirFails(fs, exists, Root) THEN AfterScanError(<<>>) ELSE <<Frame(Root)>>
    /\ UNCHANGED <<fs, exists, arg, ret, awaiting, trail, missing, shown, reply,
                   calls, prompts, warned, rmAttempted>>

\* main, lines 177 and 181-182: os.homedir() throws.
MainHomedirThrows ==
    /\ mainPc = "start"
    /\ mainPc' = "caught"
    /\ log' = Append(log, "Error")
    /\ UNCHANGED <<fs, exists, arg, ret, stack, awaiting, trail, missing, shown,
                   reply, scanned, calls, prompts, warned, rmAttempted>>

\* scanDirectory, line 158: a hidden entry is passed over.
ScanSkipHidden ==
    /\ AtEntry
    /\ isHidden(fs[Entry].name)
    /\ stack' = Advance
    /\ UNCHANGED <<fs, exists, arg, ret, mainPc, log, awaiting, trail, missing,
                   shown, reply, scanned, calls, prompts, warned, rmAttempted>>

\* scanDirectory, line 162: an entry that is no directory is passed over.
ScanSkipNonDirectory ==
    /\ AtEntry
    /\ ~isHidden(fs[Entry].name)
    /\ ~isDirectory(fs, Entry)
    /\ stack' = Advance
    /\ UNCHANGED <<fs, exists, arg, ret, mainPc, log, awaiting, trail, missing,
                   shown, reply, scanned, calls, prompts, warned, rmAttempted>>

\* scanDirectory, lines 163-164: a target directory is handed to processTarget.
ScanTarget ==
    /\ AtEntry
    /\ ~isHidden(fs[Entry].name)
    /\ isDirectory(fs, Entry)
    /\ includes(TARGET_DIRS, fs[Entry].name)
    /\ stack' = Advance
    /\ awaiting' = AwaitTarget(Entry)
    /\ trail' = Enter(Entry, "DISCOVERED")
    /\ calls' = [calls EXCEPT ![Entry] = @ + 1]
    /\ UNCHANGED <<fs, exists, arg, ret, mainPc, log, missing, shown, reply,
                   scanned, prompts, warned, rmAttempted>>

\* scanDirectory, lines 165-166 and 154-155: the walk descends.
ScanRecurse ==
    /\ AtEntry
    /\ ~isHidden(fs[Entry].name)
    /\ isDirectory(fs, Entry)
    /\ ~includes(TARGET_DIRS, fs[Entry].name)
    /\ ~readdirFails(fs, exists, Entry)
    /\ stack' = Append(Advance, Frame(Entry))
    /\ scanned' = scanned \cup {Entry}
    /\ UNCHANGED <<fs, exists, arg, ret, mainPc, log, awaiting, trail, missing,
                   shown, reply, calls, prompts, warned, rmAttempted>>

\* scanDirectory, lines 165-166 and 170-172: the directory does not list.
ScanRecurseFails ==
    /\ AtEntry
    /\ ~isHidden(fs[Entry].name)
    /\ isDirectory(fs, Entry)
    /\ ~includes(TARGET_DIRS, fs[Entry].name)
    /\ readdirFails(fs, exists, Entry)
    /\ stack' = AfterScanError(Advance)
    /\ scanned' = scanned \cup {Entry}
    /\ UNCHANGED <<fs, exists, arg, ret, mainPc, log, awaiting, trail, missing,
                   shown, reply, calls, prompts, warned, rmAttempted>>

\* scanDirectory: the loop of line 157 is over, the call returns.
ScanReturn ==
    /\ mainPc = "scan"
    /\ awaiting = None
    /\ stack # <<>>
    /\ Top.i > Len(Top.files)
    /\ stack' = SubSeq(stack, 1, Len(stack) - 1)
    /\ UNCHANGED <<fs, exists, arg, ret, mainPc, log, awaiting, trail, missing,
                   shown, reply, scanned, calls, prompts, warned, rmAttempted>>

\* processTarget, lines 127-131: the size is computed and reported.
TargetSize(n) ==
    /\ Stage(n) = "DISCOVERED"
    /\ trail' = Enter(n, "SIZED")
    /\ shown' = [shown EXCEPT ![n] = formatSize(ToDigits(calculateSize(fs, exists, n)))]
    /\ UNCHANGED <<fs, exists, arg, ret, mainPc, log, stack, awaiting, missing,
                   reply, scanned, calls, prompts, warned, rmAttempted>>

\* processTarget, lines 133-143: detection, validation, the warning if any,
\* and, without a warning, the prompt.
TargetDetect(n) ==
    /\ Stage(n) = "SIZED"
    /\ \E pf \in ParentFilesFor(fs[n].name) :
          LET w == manifestWarning(fs[n].name, pf)
          IN  IF w.warn
              THEN /\ trail' = Enter(n, "WARNED")
                   /\ warned' = warned \cup {n}
                   /\ missing' = [missing EXCEPT ![n] = w.missingFiles]
                   /\ UNCHANGED prompts
              ELSE /\ trail' = Enter(n, "PROMPTED")
                   /\ prompts' = [prompts EXCEPT ![n] = @ + 1]
                   /\ UNCHANGED <<warned, missing>>
    /\ UNCHANGED <<fs, exists, arg, ret, mainPc, log, stack, awaiting, shown, reply,
                   scanned, calls, rmAttempted>>

\* processTarget, line 143 after the warning of lines 137-139.
TargetPrompt(n) ==
    /\ Stage(n) = "WARNED"
    /\ trail' = Enter(n, "PROMPTED")
    /\ prompts' = [prompts EXCEPT ![n] = @ + 1]
    /\ UNCHANGED <<fs, exists, arg, ret, mainPc, log, stack, awaiting, missing,
                   shown, reply, scanned, calls, warned, rmAttempted>>

Settle(n, answer, outcome) ==
    /\ trail' = Enter(n, outcome)
    /\ reply' = [node |-> n, answer |-> answer]
    /\ missing' = [missing EXCEPT ![n] = <<>>]
    /\ UNCHANGED <<fs, arg, ret, mainPc, log, stack, awaiting, shown, scanned, calls,
                   prompts, warned>>

\* processTarget, line 144: any answer but "y" or "Y" ends the call.
TargetSkip(n) ==
    /\ Stage(n) = "PROMPTED"
    /\ \E answer \in Answers :
          /\ ~isYes(answer)
          /\ Settle(n, answer, "SKIPPED")
          /\ UNCHANGED <<exists, rmAttempted>>

\* processTarget, lines 144-146: fs.rm removes the subtree.
TargetDelete(n) ==
    /\ Stage(n) = "PROMPTED"
    /\ \E answer \in Answers :
          /\ isYes(answer)
          /\ Settle(n, answer, "DELETED")
          /\ rmAttempted' = rmAttempted \cup {n}
          /\ exists' = exists \ Subtree(fs, n)

\* processTarget, lines 145 and 148-150: fs.rm throws, the catch logs.
TargetDeleteFails(n) ==
    /\ Stage(n) = "PROMPTED"
    /\ \E answer \in Answers :
          /\ isYes(answer)
          /\ Settle(n, answer, "ERRORED")
          /\ rmAttempted' = rmAttempted \cup {n}
          /\ \E R \in PartialRemovals(fs, exists, n) : exists' = exists \ R

\* processTarget returns (line 151): its locals are gone and the scanner,
\* if it awaits this call, resumes.
TargetReturn(n) ==
    /\ Stage(n) \in Terminal
    /\ reply.node = n
    /\ reply' = NoReply
    /\ awaiting' = IF awaiting = n THEN None ELSE awaiting
    /\ UNCHANGED <<fs, exists, arg, ret, mainPc, log, stack, trail, missing, shown,
                   scanned, calls, prompts, warned, rmAttempted>>

\* main, line 180.
MainComplete ==
    /\ mainPc = "scan"
    /\ awaiting = None
    /\ stack = <<>>
    /\ mainPc' = "complete"
    /\ log' = Append(log, "Scan complete!")
    /\ UNCHANGED <<fs, exists, arg, ret, stack, awaiting, trail, missing, shown,
                   reply, scanned, calls, prompts, warned, rmAttempted>>

\* main, lines 183-185: rl.close() in the finally block.
MainClose ==
    /\ mainPc \in ClosesFrom
    /\ mainPc' = "closed"
    /\ log' = Append(log, "rl.close")
    /\ UNCHANGED <<fs, exists, arg, ret, stack, awaiting, trail, missing, shown,
                   reply, scanned, calls, prompts, warned, rmAttempted>>

(***************************************************************************)
(* Initial states.                                                         *)
(***************************************************************************)

NoTree == <<>>

WalkIdle(pc) ==
    /\ mainPc = pc
    /\ log = <<>>
    /\ stack = <<>>
    /\ awaiting = None
    /\ trail = [n \in Nodes |-> <<>>]
    /\ missing = [n \in Nodes |-> <<>>]
    /\ shown = [n \in Nodes |-> NoSize]
    /\ reply = NoReply
    /\ scanned = {}
    /\ calls = [n \in Nodes |-> 0]
    /\ prompts = [n \in Nodes |-> 0]
    /\ warned = {}
    /\ rmAttempted = {}

\* Every entry but the start directory has a parent with a smaller number.
TreeShapes == {p \in [1..NumNodes -> 0..(NumNodes - 1)] : \A n \in 1..NumNodes : p[n] < n}

MakeTree(p, e, r) ==
    [n \in Nodes |->
        IF n = Root
        THEN [parent |-> Root, name |-> r.name, kind |-> "dir", size |-> MaxSize,
              lstatFail |-> FALSE, listFail |-> r.listFail]
        ELSE [parent |-> p[n], name |-> e[n].name, kind |-> e[n].kind, size |-> e[n].size,
              lstatFail |-> e[n].lstatFail, listFail |-> e[n].listFail]]

\* Only directories have entries, and the entries of a directory have
\* different names.
WellFormed(tree) ==
    /\ \A n \in 1..NumNodes : tree[tree[n].parent].kind = "dir"
    /\ \A n, m \in 1..NumNodes :
          (n # m /\ tree[n].parent = tree[m].parent) => tree[n].name # tree[m].name

\* The well-formed trees over these entries, below each of these roots.
Trees(entries, roots) ==
    {t \in {MakeTree(p, e, r) : p \in TreeShapes, e \in entries, r \in roots} : WellFormed(t)}

\* The trees of the size calculation: files and links of every size, entries
\* whose lstat fails, directories that list and that do not.
SizeNames == <<"src", "lib", "dist", "target", "vendor", "build", "__pycache__">>

SizeEntries ==
    [n \in 1..NumNodes |->
        {[name |-> SizeNames[n], kind |-> k, size |-> s, lstatFail |-> FALSE, listFail |-> FALSE] :
            k \in {"file", "link"}, s \in 1..MaxSize}
        \cup {[name |-> SizeNames[n], kind |-> "dir", size |-> MaxSize, lstatFail |-> FALSE,
               listFail |-> b] : b \in BOOLEAN}
        \cup {[name |-> SizeNames[n], kind |-> k, size |-> MaxSize, lstatFail |-> TRUE,
               listFail |-> FALSE] : k \in {"file", "dir"}}]

SizeRoots == {[name |-> "home", listFail |-> b] : b \in BOOLEAN}

SizeTrees(roots) ==
    Trees({e \in [1..NumNodes -> UNION {SizeEntries[n] : n \in 1..NumNodes}] :
              \A n \in 1..NumNodes : e[n] \in SizeEntries[n]},
          roots)

\* The trees of the walk: plain, target and hidden names, directories and
\* links, directories that list and that do not.
WalkNames == {"src", "node_modules", ".next"}

WalkEntries ==
    {[name |-> nm, kind |-> "dir", size |-> MaxSize, lstatFail |-> FALSE, listFail |-> FALSE] :
        nm \in WalkNames}
    \cup {[name |-> nm, kind |-> "dir", size |-> MaxSize, lstatFail |-> FALSE,
           listFail |-> TRUE] : nm \in {"src"}}
    \cup {[name |-> "node_modules", kind |-> "link", size |-> MaxSize, lstatFail |-> FALSE,
           listFail |-> FALSE]}

\* os.homedir(): the home directory's own name is never inspected by the walk.
RootNames == {"home", "build"}

WalkRoots ==
    {[name |-> nm, listFail |-> FALSE] : nm \in RootNames}
        \cup {[name |-> "home", listFail |-> TRUE]}

WalkTrees(roots) == Trees([1..NumNodes -> WalkEntries], roots)

\* Byte counts below 1024^MaxDigits, around the unit boundaries.
MaxDigits == 5

DigitValues == {0, 1, K \div 2 - 1, K \div 2, K - 1}

ByteCounts ==
    {d \in UNION {[1..len -> DigitValues] : len \in 0..MaxDigits} :
        Len(d) = 0 \/ d[Len(d)] # 0}

AllConfigFiles == UNION {Range(PROJECT_TYPES[t].configFiles) : t \in DOMAIN PROJECT_TYPES}

ConfigDirNames == {"node_modules", "venv", "build", "src"}

(***************************************************************************)
(* The specification of the walk.                                          *)
(***************************************************************************)

Init ==
    /\ fs \in WalkTrees(WalkRoots)
    /\ exists = Nodes
    /\ arg = <<>>
    /\ ret = <<>>
    /\ WalkIdle("start")

Next ==
    \/ MainStart
    \/ MainHomedirThrows
    \/ ScanSkipHidden
    \/ ScanSkipNonDirectory
    \/ ScanTarget
    \/ ScanRecurse
    \/ ScanRecurseFails
    \/ ScanReturn
    \/ \E n \in Nodes : TargetSize(n)
    \/ \E n \in Nodes : TargetDetect(n)
    \/ \E n \in Nodes : TargetPrompt(n)
    \/ \E n \in Nodes : TargetSkip(n)
    \/ \E n \in Nodes : TargetDelete(n)
    \/ \E n \in Nodes : TargetDeleteFails(n)
    \/ \E n \in Nodes : TargetReturn(n)
    \/ MainComplete
    \/ MainClose

Spec == Init /\ [][Next]_vars

(***************************************************************************)
(* The pure functions, each applied to every input of a bounded set.       *)
(***************************************************************************)

InitFormat ==
    /\ fs = NoTree
    /\ exists = {}
    /\ arg \in ByteCounts
    /\ ret = NoSize
    /\ WalkIdle("call")

FormatCall ==
    /\ mainPc = "call"
    /\ mainPc' = "returned"
    /\ ret' = formatSize(arg)
    /\ UNCHANGED <<fs, exists, arg, log, stack, awaiting, trail, missing, shown,
                   reply, scanned, calls, prompts, warned, rmAttempted>>

SpecFormat == InitFormat /\ [][FormatCall]_vars

InitConfig ==
    /\ fs = NoTree
    /\ exists = {}
    /\ arg \in [dirName : ConfigDirNames, files : [AllConfigFiles -> FileStates]]
    /\ ret = [op |-> "none", type |-> "null", isValid |-> FALSE, missingFiles |-> <<>>,
              warn |-> FALSE]
    /\ WalkIdle("call")

DetectCall ==
    /\ mainPc = "call"
    /\ mainPc' = "returned"
    /\ ret' = [op |-> "detect", type |-> detectProjectType(arg.dirName, arg.files),
               isValid |-> FALSE, missingFiles |-> <<>>, warn |-> FALSE]
    /\ UNCHANGED <<fs, exists, arg, log, stack, awaiting, trail, missing, shown,
                   reply, scanned, calls, prompts, warned, rmAttempted>>

VerifyCall ==
    /\ mainPc = "call"
    /\ mainPc' = "returned"
    /\ \E type \in DOMAIN PROJECT_TYPES :
          LET v == verifyConfigFiles(arg.files, type)
          IN  ret' = [op |-> "verify", type |-> type, isValid |-> v.isValid,
                      missingFiles |-> v.missingFiles, warn |-> FALSE]
    /\ UNCHANGED <<fs, exists, arg, log, stack, awaiting, trail, missing, shown,
                   reply, scanned, calls, prompts, warned, rmAttempted>>

WarnCall ==
    /\ mainPc = "call"
    /\ mainPc' = "returned"
    /\ LET w == manifestWarning(arg.dirName, arg.files)
       IN  ret' = [op |-> "warn", type |-> "null", isValid |-> FALSE,
                   missingFiles |-> w.missingFiles, warn |-> w.warn]
    /\ UNCHANGED <<fs, exists, arg, log, stack, awaiting, trail, missing, shown,
                   reply, scanned, calls, prompts, warned, rmAttempted>>

NextConfig == DetectCall \/ VerifyCall \/ WarnCall

SpecConfig == InitConfig /\ [][NextConfig]_vars

InitSize ==
    /\ fs \in SizeTrees(SizeRoots)
    /\ exists = Nodes
    /\ arg = Root
    /\ ret = 0
    /\ WalkIdle("call")

SizeCall ==
    /\ mainPc = "call"
    /\ mainPc' = "returned"
    /\ ret' = calculateSize(fs, exists, arg)
    /\ UNCHANGED <<fs, exists, arg, log, stack, awaiting, trail, missing, shown,
                   reply, scanned, calls, prompts, warned, rmAttempted>>

SpecSize == InitSize /\ [][SizeCall]_vars

\* Node runs every continuation whose await has settled, and the operator
\* answers every prompt.
SpecLive == Spec /\ WF_vars(Next)

(***************************************************************************)
(* Properties.                                                             *)
(***************************************************************************)

TargetNames == Range(TARGET_DIRS)

Dotted(name) == FirstChar(name) = "."

RECURSIVE SumSizes(_, _)
SumSizes(tree, S) ==
    IF S = {} THEN 0
    ELSE LET n == CHOOSE n \in S : TRUE IN tree[n].size + SumSizes(tree, S \ {n})

\* C1: fs.rm is called on a directory if and only if the directory was handed
\* to processTarget (a non-hidden directory with a target name) and the answer
\* to its own prompt is "y" or "Y"; any other answer removes nothing, nothing
\* is removed before the prompt is answered, and nothing outside the subtrees
\* handed to fs.rm is ever removed.
RemovalOnlyOnYes ==
    /\ \A n \in rmAttempted :
          /\ n # Root
          /\ calls[n] = 1 /\ prompts[n] = 1
          /\ fs[n].kind = "dir" /\ ~Dotted(fs[n].name) /\ fs[n].name \in TargetNames
          /\ Stage(n) \in {"DELETED", "ERRORED"}
    /\ reply.node # None =>
          /\ calls[reply.node] = 1
          /\ (reply.node \in rmAttempted <=> reply.answer \in {<<"y">>, <<"Y">>})
          /\ reply.answer \notin {<<"y">>, <<"Y">>} =>
                (Stage(reply.node) = "SKIPPED" /\ Subtree(fs, reply.node) \subseteq exists)
    /\ \A n \in Nodes :
          /\ Stage(n) \in {"none", "SKIPPED"} \cup Active => n \notin rmAttempted
          /\ Stage(n) = "DELETED" => Subtree(fs, n) \cap exists = {}
    /\ (Nodes \ exists) \subseteq UNION {Subtree(fs, n) : n \in rmAttempted}

\* C1 happens: "Y" was answered and fs.rm was called, after another target
\* was left alone.
RemovalOnlyOnYesWitness ==
    /\ reply.node # None
    /\ reply.answer = <<"Y">>
    /\ reply.node \in rmAttempted
    /\ \E m \in Nodes : Stage(m) = "SKIPPED" /\ Subtree(fs, m) \subseteq exists

\* C2 as stated: no directory scanDirectory lists has a name that starts with
\* "." or is a target name, and processTarget is never called on a hidden
\* directory.
NeverListsHiddenOrTarget ==
    /\ \A d \in scanned : ~Dotted(fs[d].name) /\ fs[d].name \notin TargetNames
    /\ \A n \in Nodes : calls[n] > 0 => ~Dotted(fs[n].name)

\* C2 amended: the same of every directory but the scan root, which main
\* hands to scanDirectory whatever its name.
NeverDescendsHiddenOrTarget ==
    /\ \A d \in scanned \ {Root} : ~Dotted(fs[d].name) /\ fs[d].name \notin TargetNames
    /\ \A n \in Nodes : calls[n] > 0 => ~Dotted(fs[n].name)
    /\ \A n \in Nodes : Dotted(fs[n].name) => trail[n] = <<>>

\* C2 happens: the walk is over; a hidden directory with a target name was
\* passed over together with the target directory inside it, and a target the
\* operator left alone was not listed.
NeverDescendsWitness ==
    /\ mainPc = "closed"
    /\ \E h, c \in Nodes \ {Root} :
          /\ fs[h].name = ".next" /\ fs[h].kind = "dir" /\ fs[h].parent = Root
          /\ fs[c].parent = h /\ fs[c].kind = "dir" /\ fs[c].name = "node_modules"
          /\ h \notin scanned /\ calls[h] = 0 /\ calls[c] = 0
    /\ \E t \in Nodes \ {Root} : Stage(t) = "SKIPPED" /\ t \notin scanned

\* C3: verifyConfigFiles returns isValid = TRUE iff a manifest file of the rule
\* is present with size > 0, and missingFiles is the rule's manifest files that
\* are absent or inaccessible, in rule order.
VerifyContract ==
    (mainPc = "returned" /\ ret.op = "verify") =>
        LET cf == PROJECT_TYPES[ret.type].configFiles
            Gone(f) == arg.files[f].st \in {"absent", "inaccessible"}
        IN  /\ ret.isValid <=>
                  \E f \in Range(cf) : arg.files[f].st = "present" /\ arg.files[f].size > 0
            /\ ret.missingFiles = SelectSeq(cf, Gone)
            /\ Range(ret.missingFiles) \subseteq Range(cf)
            /\ \A f \in Range(ret.missingFiles) : arg.files[f].st # "present"

\* C3 happens: a rule with one manifest file absent, one inaccessible and one
\* present but empty.
VerifyContractWitness ==
    /\ mainPc = "returned" /\ ret.op = "verify"
    /\ ~ret.isValid
    /\ Len(ret.missingFiles) = 2
    /\ {arg.files[f].st : f \in Range(PROJECT_TYPES[ret.type].configFiles)}
           = {"absent", "inaccessible", "present"}

\* C4: detectProjectType returns a rule only when the basename is that rule's
\* depFolder and one of its manifest files is accessible in the parent; it
\* returns none when no rule has the basename and an accessible manifest file.
DetectContract ==
    (mainPc = "returned" /\ ret.op = "detect") =>
        LET Matches(t) ==
                /\ PROJECT_TYPES[t].depFolder = arg.dirName
                /\ \E f \in Range(PROJECT_TYPES[t].configFiles) : arg.files[f].st = "present"
        IN  /\ ret.type # "null" => (ret.type \in DOMAIN PROJECT_TYPES /\ Matches(ret.type))
            /\ ret.type = "null" <=> ~\E t \in DOMAIN PROJECT_TYPES : Matches(t)
            /\ arg.dirName \notin {"node_modules", "venv"} => ret.type = "null"

\* C4 happens: a venv whose parent holds no manifest file of the Python rule
\* (and holds one of the Node rule) gets no match.
DetectContractWitness ==
    /\ mainPc = "returned" /\ ret.op = "detect"
    /\ arg.dirName = "venv"
    /\ ret.type = "null"
    /\ arg.files["package.json"].st = "present"

\* C5: calculateSize returns the sizes of the files and links whose lstat
\* succeeds and which are reached through directories that list and whose lstat
\* succeeds; level by level, the sum over the entries of the directory of the
\* size of a file or link and of calculateSize of a child directory, an entry
\* whose lstat fails and a directory that does not list adding 0.
SizeContract ==
    (mainPc = "returned") =>
        LET Readable(n) ==
                /\ n # Root
                /\ ~fs[n].lstatFail
                /\ \A a \in Ancestors(fs, n) :
                      ~fs[a].listFail /\ (a # Root => ~fs[a].lstatFail)
            Counted == {n \in Nodes : Readable(n) /\ fs[n].kind \in {"file", "link"}}
            Top1 == {n \in Nodes \ {Root} : fs[n].parent = Root /\ ~fs[n].lstatFail}
        IN  /\ ret = SumSizes(fs, Counted)
            /\ ret = IF fs[Root].listFail THEN 0
                     ELSE SumSizes(fs, {n \in Top1 : fs[n].kind # "dir"})
                          + SumSizes([n \in Nodes |->
                                         [size |-> calculateSize(fs, exists, n)]],
                                     {n \in Top1 : fs[n].kind = "dir"})

\* C5 happens: a link and a file are counted, below a directory, beside an
\* entry whose lstat fails.
SizeContractWitness ==
    /\ mainPc = "returned"
    /\ \E d, l, x \in Nodes \ {Root} :
          /\ fs[d].kind = "dir" /\ ~fs[d].lstatFail /\ ~fs[d].listFail /\ fs[d].parent = Root
          /\ fs[l].kind = "link" /\ fs[l].parent = d /\ ~fs[l].lstatFail
          /\ fs[x].lstatFail
          /\ ~fs[Root].listFail
          /\ ret = fs[l].size

\* b / 1024^k < 1024, for a byte count b without leading zero digits.
ScaledBelowK(b, k) == Len(b) <= k + 1

UnitIndex(unit) == (CHOOSE i \in 1..Len(units) : units[i] = unit) - 1

\* The number of times b can be divided by 1024 while remaining >= 1.
RECURSIVE DivCount(_)
DivCount(b) == IF Len(b) >= 2 THEN 1 + DivCount(Tail(b)) ELSE 0

SetMax(S) == CHOOSE x \in S : \A y \in S : y <= x

SetMin(S) == CHOOSE x \in S : \A y \in S : x <= y

\* C6 as stated: the unit is the largest of B, KB, MB, GB whose scaled value
\* is below 1024, and GB when there is none.
LargestUnitBelowK ==
    (mainPc = "returned") =>
        LET ok == {k \in 0..3 : ScaledBelowK(arg, k)}
        IN  UnitIndex(ret.unit) = IF ok = {} THEN 3 ELSE SetMax(ok)

\* C6 amended: the unit is the smallest of B, KB, MB, GB whose scaled value
\* is below 1024, and GB when there is none; its index is the smaller of 3 and
\* the number of times the count can be divided by 1024 while remaining >= 1.
SmallestUnitBelowK ==
    (mainPc = "returned") =>
        LET ok == {k \in 0..3 : ScaledBelowK(arg, k)}
        IN  /\ UnitIndex(ret.unit) = IF ok = {} THEN 3 ELSE SetMin(ok)
            /\ UnitIndex(ret.unit) = IF DivCount(arg) < 3 THEN DivCount(arg) ELSE 3
            /\ Len(arg) >= 5 => (ret.unit = "GB" /\ Len(ret.whole) >= 2)
            /\ arg = <<>> => ret = [whole |-> <<>>, cents |-> 0, unit |-> "B"]
            /\ arg = <<K \div 2, 1>> => ret = [whole |-> <<1>>, cents |-> 50, unit |-> "KB"]
            /\ arg = <<0, 0, 0, 1>> => ret = [whole |-> <<1>>, cents |-> 0, unit |-> "GB"]

\* C6 happens: a count of 1024^4 or more is formatted in GB with a scaled
\* value of 1024 or more.
SmallestUnitWitness ==
    /\ mainPc = "returned"
    /\ Len(arg) = 5
    /\ ret.unit = "GB"
    /\ Len(ret.whole) = 2

IsPrefix(a, b) == Len(a) <= Len(b) /\ SubSeq(b, 1, Len(a)) = a

\* main has printed "Scan complete!".
WalkOver == \E i \in DOMAIN log : log[i] = "Scan complete!"

\* What main has printed and done so far is a start of one of its two runs:
\* the walk, "Scan complete!", rl.close(); or the error, rl.close().  No
\* scanDirectory or processTarget call is under way once "Scan complete!" is
\* printed, and nothing is left to run once the stream is closed.
MainOrder ==
    /\ \/ IsPrefix(log, <<"Starting scan", "Scan complete!", "rl.close">>)
       \/ IsPrefix(log, <<"Error", "rl.close">>)
    /\ mainPc = "closed" <=> (log # <<>> /\ log[Len(log)] = "rl.close")
    /\ WalkOver => (stack = <<>> /\ \A n \in Nodes : Stage(n) \notin Active)
    /\ mainPc = "closed" => ~ENABLED Next

\* C7: under the fairness of SpecLive the input stream is closed in the end,
\* on the path through "Scan complete!" when os.homedir() returned and on the
\* path through the catch when it threw.
WalkTerminates == <>(mainPc = "closed") /\ []MainOrder

\* C7 happens: the walk ran to its end over a tree with a symbolic link, a
\* directory that did not list and a removal that failed.
WalkTerminatesWitness ==
    /\ mainPc = "closed"
    /\ log = <<"Starting scan", "Scan complete!", "rl.close">>
    /\ \E l \in Nodes : fs[l].kind = "link" /\ l \in exists
    /\ \E d \in scanned \ {Root} : fs[d].listFail
    /\ \E t \in Nodes : Stage(t) = "ERRORED"

TargetPaths ==
    {<<"DISCOVERED", "SIZED", "PROMPTED", t>> : t \in Terminal}
        \cup {<<"DISCOVERED", "SIZED", "WARNED", "PROMPTED", t>> : t \in Terminal}

\* C8: every processTarget call goes DISCOVERED, SIZED, WARNED or not,
\* PROMPTED, then one of DELETED, SKIPPED, ERRORED, each at most once; a
\* warned target is prompted, and deleted on "y"; while a call is under way no
\* other is, and the scanner stays at the entry of that target.
TargetStateMachine ==
    /\ \A n \in Nodes :
          /\ \E path \in TargetPaths : IsPrefix(trail[n], path)
          /\ calls[n] <= 1 /\ prompts[n] <= 1
          /\ (n \in warned /\ Stage(n) # "WARNED") => prompts[n] = 1
          /\ n \in warned <=> \E i \in DOMAIN trail[n] : trail[n][i] = "WARNED"
          /\ prompts[n] = 1 <=> \E i \in DOMAIN trail[n] : trail[n][i] = "PROMPTED"
          /\ Stage(n) \in Active =>
                /\ awaiting = n
                /\ stack # <<>>
                /\ Top.dir = fs[n].parent
                /\ Top.i > 1 /\ Top.files[Top.i - 1] = n
    /\ Cardinality({n \in Nodes : Stage(n) \in Active}) <= 1
    /\ (reply.node # None /\ reply.answer \in {<<"y">>, <<"Y">>}) =>
          Stage(reply.node) \in {"DELETED", "ERRORED"}
    /\ mainPc \in {"complete", "closed"} => \A n \in Nodes : Stage(n) \in Terminal \cup {"none"}

\* C8 happens: a warned target was deleted on "y" after another target had
\* reached its terminal state.
TargetStateMachineWitness ==
    \E n, m \in Nodes :
        /\ n # m
        /\ trail[n] = <<"DISCOVERED", "SIZED", "WARNED", "PROMPTED", "DELETED">>
        /\ reply = [node |-> n, answer |-> <<"y">>]
        /\ Stage(m) \in Terminal

\* A target directory the walk is to reach: not hidden, with a target name,
\* below ancestors (the scan root aside) that are neither hidden nor targets
\* and that list.
Reachable(n) ==
    /\ n # Root
    /\ fs[n].kind = "dir"
    /\ ~Dotted(fs[n].name)
    /\ fs[n].name \in TargetNames
    /\ \A a \in Ancestors(fs, n) \ {Root} :
          ~Dotted(fs[a].name) /\ fs[a].name \notin TargetNames /\ ~fs[a].listFail

Processed(n) == calls[n] = 1 /\ prompts[n] = 1 /\ Stage(n) \in Terminal

\* C9 as stated: when the walk is over every such directory was handed to
\* processTarget exactly once and prompted for once.
EveryTargetProcessed ==
    WalkOver => \A n \in Nodes : Reachable(n) => Processed(n)

\* C9 amended: the same, provided the scan root itself lists; and no directory
\* is ever handed to processTarget twice.
EveryTargetProcessedUnderRoot ==
    /\ (WalkOver /\ ~fs[Root].listFail) =>
          \A n \in Nodes : Reachable(n) => Processed(n)
    /\ \A n \in Nodes : calls[n] <= 1 /\ prompts[n] <= 1

\* C9 happens: a target below a plain directory was processed after a sibling
\* of that directory failed to be removed.
EveryTargetProcessedWitness ==
    /\ mainPc = "complete"
    /\ \E n, m \in Nodes :
          /\ Reachable(n) /\ fs[n].parent # Root /\ Processed(n)
          /\ Stage(m) = "ERRORED" /\ m < fs[n].parent

\* C10: the warning is printed iff the basename is a rule's depFolder, one of
\* the rule's manifest files is accessible and none is stat-able with size > 0;
\* then the files it lists leave out one of the rule's manifest files.
WarningContract ==
    (mainPc = "returned" /\ ret.op = "warn") =>
        LET Rules == {t \in DOMAIN PROJECT_TYPES : PROJECT_TYPES[t].depFolder = arg.dirName}
            Files(t) == Range(PROJECT_TYPES[t].configFiles)
            Present(f) == arg.files[f].st = "present"
        IN  /\ ret.warn <=>
                  \E t \in Rules :
                      /\ \E f \in Files(t) : Present(f)
                      /\ ~\E f \in Files(t) : Present(f) /\ arg.files[f].size > 0
            /\ arg.dirName \notin {"node_modules", "venv"} => ~ret.warn
            /\ (\A t \in Rules : \A f \in Files(t) : arg.files[f].st = "absent") => ~ret.warn
            /\ ret.warn => \E t \in Rules : \E f \in Files(t) : f \notin Range(ret.missingFiles)

\* C10 happens: a venv beside an empty Pipfile and no other manifest file of
\* its rule is warned about, the two others listed as missing.
WarningContractWitness ==
    /\ mainPc = "returned" /\ ret.op = "warn"
    /\ arg.dirName = "venv"
    /\ ret.warn
    /\ ret.missingFiles = <<"requirements.txt", "poetry.lock">>

====
